---- MODULE Spec2Model ----
(***************************************************************************)
(* Decision Transformer training / evaluation loops.                       *)
(*                                                                         *)
(*   src/src/decision_transformer/train.py   train, test, evaluate_dt_agent*)
(*   src/src/streamlit_app/environment.py    get_action_preds,             *)
(*                                           respond_to_action             *)
(*   src/src/environments.py                 make_env                      *)
(*                                                                         *)
(* The transformer's forward pass and the gym environment are opaque       *)
(* collaborators: the argmax of the predicted logits and the environment's *)
(* reward / terminated answers are nondeterministic choices from small     *)
(* sets.  Rewards and returns-to-go are integers (exact arithmetic).       *)
(***************************************************************************)
EXTENDS Integers, Sequences, FiniteSets, TLC

VARIABLES
    ev,       \* the locals of one evaluate_dt_agent call (a record)
    evTwin,   \* the same call with the opposite `track` flag (paired runs)
    tr,       \* the locals of one train call, with the calls it makes
    lb,       \* one batch going through the loss code of train / test
    app,      \* the interactive session (st.session_state and the dt)
    fac,      \* a caller of the environment factory make_env
    ld,       \* one get_env_and_dt call (the front end loading a checkpoint)
    tw        \* a TrajectoryWriter and the calls made on it

vars == <<ev, evTwin, tr, lb, app, fac, ld, tw>>

\* A variable that a specification does not use is pinned to this value.
Idle == [pc |-> "idle"]

----------------------------------------------------------------------------
(* Bounds of the model *)

\* the environment's step limit (make_env's max_steps): truncated is
\* signalled by the step that reaches it
MaxSteps == 3
\* the `trajectories` argument of evaluate_dt_agent
MaxTraj == 2
\* how many .mp4 files may appear in the video directory during one call
MaxVideos == 2

\* the environment's discrete actions; NumActions is env.action_space.n
Actions == {0, 1}
NumActions == Cardinality(Actions)
Rewards == {0, 1}
InitialRtgs == {2}
\* dt.n_ctx values: two legal context lengths and one not divisible by 3
CtxLens == {3, 4, 6}

\* train_epochs of train
MaxEpochs == 3
\* len(train_dataloader) and len(test_dataloader)
MaxBatches == 2
\* test_epochs of train / epochs of test
MaxTestEpochs == 2
\* test_frequency and eval_frequency
Frequencies == {1, 2}
\* eval_episodes of train
EvalEpisodes == {1, 2}
\* the loss of one batch, as an integer
BatchLosses == {1, 2}

\* positions (batch x time, flattened) of one batch of the loss code
MaxPositions == 2
\* batches one run of the loss code goes through
MaxLossBatches == 2
\* the store-side marker of "no action yet" (a[a == -10])
NoActionMarker == -10
\* the per-position cross-entropy terms, as integers
PositionLosses == {1, 2}

----------------------------------------------------------------------------
(* Sequence helpers *)

Last(s) == s[Len(s)]

Min(x, y) == IF x <= y THEN x ELSE y
Max(x, y) == IF x >= y THEN x ELSE y

\* Python's s[-m:] on a sequence: -0 is 0, so m = 0 selects everything;
\* a start before the beginning is clamped to the beginning.
PySliceLast(s, m) ==
    IF m = 0 THEN s
    ELSE SubSeq(s, Max(Len(s) - m, 0) + 1, Len(s))

RECURSIVE SumSeq(_)
SumSeq(s) == IF s = <<>> THEN 0 ELSE s[1] + SumSeq(Tail(s))

\* a quotient x / y kept exact
Frac(x, y) == [num |-> x, den |-> y]

----------------------------------------------------------------------------
(* evaluate_dt_agent: the rollout evaluator.                               *)
(* Its locals are the fields of a record, named as in the source.  Fields  *)
(* fwd, n_forward, step_actions, step_rewards, seeds, end_flags, envs_made,*)
(* env_open and log_calls record what the call did to its collaborators    *)
(* (forward calls, env.step / reset / close, wandb.log), and env_calls the *)
(* calls the latest step of the function made on the environment, in the   *)
(* order it made them.                                                     *)

\* dt.forward(states=..., actions=..., rtgs=..., timesteps=...): the call is
\* recorded with the mode the module is in; its logits are opaque.
ForwardCall(states, actions, rtgs, timesteps, training) ==
    [states |-> states, actions |-> actions, rtgs |-> rtgs,
     timesteps |-> timesteps, training |-> training]

NoForward == ForwardCall(<<>>, <<>>, <<>>, <<>>, FALSE)

\* a slip: the window is cut from the front of the history
TruncateWindowFirst(x, max_len) ==
    IF Len(x) > max_len THEN SubSeq(x, 1, max_len) ELSE x

\* x[:, -max_len:] if x.shape[1] > max_len else x
TruncateWindow(x, max_len) ==
    IF Len(x) > max_len THEN PySliceLast(x, max_len) ELSE x

\* the action appended to the action history in the while loop
AppendedAction(e) == e.new_action

\* a slip: the budget is restarted from the initial value
NextRtgFromInitial(e) == e.initial_rtg - e.new_reward

\* the return-to-go appended in the while loop
NextRtg(e) == Last(e.rtg) - e.new_reward

\* a slip: the latest timestep is repeated
NextTimestepRepeated(e) == Last(e.timesteps)

\* lines 278-279: the timestep appended in the while loop
NextTimestep(e) == Last(e.timesteps) + 1

\* the arguments of a call, before its first statement
EvalCall(n_ctx, trajectories, initial_rtg, track) ==
    [pc |-> "call", n_ctx |-> n_ctx, trajectories |-> trajectories,
     initial_rtg |-> initial_rtg, track |-> track,
     training |-> TRUE, max_len |-> 0, seed |-> 0,
     obs |-> <<>>, rtg |-> <<>>, a |-> <<>>, timesteps |-> <<>>,
     new_action |-> 0, new_reward |-> 0,
     terminated |-> FALSE, truncated |-> FALSE, i |-> 0,
     traj_lengths |-> <<>>, rewards |-> <<>>,
     n_terminated |-> 0, n_truncated |-> 0, reward_total |-> 0,
     n_positive |-> 0, videos |-> 0,
     statistics |-> <<>>, error |-> "",
     fwd |-> NoForward, n_forward |-> 0,
     step_actions |-> <<>>, step_rewards |-> <<>>,
     seeds |-> <<>>, end_flags |-> <<>>,
     envs_made |-> 0, env_open |-> FALSE, log_calls |-> 0,
     env_calls |-> <<>>]

\* lines 213-242: dt.eval(), env = env_func(), the n_ctx assertion, the
\* counters, and the video directory emptied of .mp4 files
EvalBegin(e) ==
    LET e1 == [e EXCEPT !.training = FALSE,
                        !.envs_made = @ + 1, !.env_open = TRUE,
                        !.env_calls = <<"env_func">>]
    IN  IF e.n_ctx % 3 # 0
        THEN [e1 EXCEPT !.pc = "aborted",
                        !.error = "n_ctx must be divisible by 3"]
        ELSE [e1 EXCEPT !.pc = "for",
                        !.max_len = e.n_ctx \div 3,
                        !.traj_lengths = <<>>, !.rewards = <<>>,
                        !.n_terminated = 0, !.n_truncated = 0,
                        !.reward_total = 0, !.n_positive = 0,
                        !.videos = 0, !.seed = 0]

\* the environment's answer to env.step: the step that reaches the step
\* limit signals truncated
EnvTruncated(e) == Len(e.step_actions) + 1 >= MaxSteps

\* lines 244-266: reset with the next seed, the single-position window,
\* the first forward call and the first env.step.
\* act is the argmax of the logits, rew and term the environment's answer.
EpisodeReset(e, act, rew, term) ==
    LET obs0 == <<0>>
        rtg0 == <<e.initial_rtg>>
        a0   == <<0>>
        ts0  == <<0>>
    IN  [e EXCEPT !.pc = "while",
                  !.seeds = Append(@, e.seed),
                  !.obs = obs0, !.rtg = rtg0, !.a = a0, !.timesteps = ts0,
                  !.fwd = ForwardCall(obs0, a0, rtg0, ts0, e.training),
                  !.n_forward = @ + 1,
                  !.new_action = act,
                  !.step_actions = <<act>>,
                  !.step_rewards = <<rew>>,
                  !.new_reward = rew,
                  !.terminated = term,
                  !.truncated = (1 >= MaxSteps),
                  !.env_calls = <<"reset", "step">>,
                  !.i = 0]

\* lines 267-302: one iteration of the while loop
WhileBody(e, act, rew, term) ==
    LET obs1 == Append(e.obs, Len(e.step_actions))
        rtg1 == Append(e.rtg, NextRtg(e))
        ts1  == Append(e.timesteps, NextTimestep(e))
        a1   == Append(e.a, AppendedAction(e))
    IN  [e EXCEPT !.obs = obs1, !.rtg = rtg1, !.timesteps = ts1, !.a = a1,
                  !.fwd = ForwardCall(TruncateWindow(obs1, e.max_len),
                                      TruncateWindow(a1, e.max_len),
                                      TruncateWindow(rtg1, e.max_len),
                                      TruncateWindow(ts1, e.max_len),
                                      e.training),
                  !.n_forward = @ + 1,
                  !.step_actions = Append(@, act),
                  !.step_rewards = Append(@, rew),
                  !.new_reward = rew,
                  !.terminated = term,
                  !.truncated = EnvTruncated(e),
                  !.env_calls = <<"step">>,
                  !.i = @ + 1]

\* a slip: the flag is ignored and every episode counted
CountFlagAlways(n, flag) == n + 1

\* n_terminated = n_terminated + terminated (a bool counts as 0 or 1)
CountFlag(n, flag) == n + (IF flag THEN 1 ELSE 0)

\* lines 304-325: the episode's statistics and the check for new videos.
\* new is the number of .mp4 files that appeared since the last listing.
EpisodeEnd(e, new) ==
    LET e1 == [e EXCEPT
                 !.traj_lengths = Append(@, e.i),
                 !.rewards = Append(@, e.new_reward),
                 !.n_positive = CountFlag(@, e.new_reward > 0),
                 !.reward_total = @ + e.new_reward,
                 !.n_terminated = CountFlag(@, e.terminated),
                 !.n_truncated = CountFlag(@, e.truncated),
                 !.env_calls = <<>>,
                 !.end_flags = Append(@, [terminated |-> e.terminated,
                                          truncated |-> e.truncated])]
    IN  IF e.track /\ new > 0 /\ new # 1
        THEN [e1 EXCEPT !.pc = "aborted",
                        !.error = "more than one new video found"]
        ELSE [e1 EXCEPT !.pc = "for",
                        !.log_calls =
                            @ + (IF e.track /\ new > 0 THEN 1 ELSE 0),
                        !.videos = @ + new,
                        !.seed = @ + 1]

\* lines 327-336
Statistics(e) ==
    [initial_rtg |-> e.initial_rtg,
     prop_completed |-> Frac(e.n_terminated, e.trajectories),
     prop_truncated |-> Frac(e.n_truncated, e.trajectories),
     mean_reward |-> Frac(e.reward_total, e.trajectories),
     prop_positive_reward |-> Frac(e.n_positive, e.trajectories),
     mean_traj_length |-> Frac(SumSeq(e.traj_lengths), e.trajectories),
     traj_lengths |-> e.traj_lengths,
     rewards |-> e.rewards]

\* lines 327-353: the statistics, env.close() and, when tracking, one log
\* call per statistic and one more for each of the two histograms
EvalReturn(e) ==
    [e EXCEPT !.pc = "returned",
              !.statistics = Statistics(e),
              !.env_open = FALSE,
              !.env_calls = <<"close">>,
              !.log_calls = @ + (IF e.track THEN 9 ELSE 0)]

\* line 244: the for loop has a seed left
AtReset(e) == e.pc = "for" /\ e.seed < e.trajectories

\* a slip: the loop goes on until the environment signals terminated
AtStepUnlessTerminated(e) == e.pc = "while" /\ ~e.terminated

\* line 267: while not (terminated or truncated)
AtStep(e) == e.pc = "while" /\ ~(e.terminated \/ e.truncated)

\* line 267, condition false: the statements after the loop
AtTerminal(e) == e.pc = "while" /\ (e.terminated \/ e.truncated)

\* a slip: the function returns once an episode has been run
AtReturnAfterFirst(e) == e.pc = "for" /\ e.seed >= 1

\* line 244, range exhausted
AtReturn(e) == e.pc = "for" /\ e.seed >= e.trajectories

----------------------------------------------------------------------------
(* Spec: one call of evaluate_dt_agent *)

OthersIdle ==
    /\ evTwin = Idle /\ tr = Idle /\ lb = Idle /\ app = Idle /\ fac = Idle
    /\ ld = Idle /\ tw = Idle

Init ==
    /\ \E n \in CtxLens, k \in 1 .. MaxTraj, r \in InitialRtgs, t \in BOOLEAN :
          ev = EvalCall(n, k, r, t)
    /\ OthersIdle

Begin ==
    /\ ev.pc = "call"
    /\ ev' = EvalBegin(ev)
    /\ UNCHANGED <<evTwin, tr, lb, app, fac, ld, tw>>

Reset ==
    /\ AtReset(ev)
    /\ \E act \in Actions, rew \in Rewards, term \in BOOLEAN :
          ev' = EpisodeReset(ev, act, rew, term)
    /\ UNCHANGED <<evTwin, tr, lb, app, fac, ld, tw>>

Step ==
    /\ AtStep(ev)
    /\ \E act \in Actions, rew \in Rewards, term \in BOOLEAN :
          ev' = WhileBody(ev, act, rew, term)
    /\ UNCHANGED <<evTwin, tr, lb, app, fac, ld, tw>>

Terminal ==
    /\ AtTerminal(ev)
    /\ \E new \in 0 .. (MaxVideos - ev.videos) :
          ev' = EpisodeEnd(ev, new)
    /\ UNCHANGED <<evTwin, tr, lb, app, fac, ld, tw>>

Return ==
    /\ AtReturn(ev)
    /\ ev' = EvalReturn(ev)
    /\ UNCHANGED <<evTwin, tr, lb, app, fac, ld, tw>>

Next == Begin \/ Reset \/ Step \/ Terminal \/ Return

Spec == Init /\ [][Next]_vars

\* the calls whose termination is examined: one context length that passes
\* the assertion of line 221 and one that fails it
InitLive ==
    /\ \E n \in {3, 4}, k \in 1 .. MaxTraj, r \in InitialRtgs, t \in BOOLEAN :
          ev = EvalCall(n, k, r, t)
    /\ OthersIdle

\* the function is sequential code on one thread: as long as a statement
\* is left to run, one is run
SpecLive == InitLive /\ [][Next]_vars /\ WF_vars(Next)

----------------------------------------------------------------------------
(* Properties of the rollout evaluator (Spec) *)

\* the while loop has been left: the last env.step ended the episode
EpisodeOver == ev.pc = "while" /\ (ev.terminated \/ ev.truncated)

\* R minus the first k of the rewards rs
RtgAfter(R, rs, k) == R - SumSeq(SubSeq(rs, 1, k))

C2_ActionHistoryIsExecuted ==
    ev.pc = "while" =>
        ev.a = <<0>> \o SubSeq(ev.step_actions, 1, ev.i)

\* C3: every forward call receives min(history, max_len) positions, the
\* most recent ones, and the same ones in all four channels.
C3_ForwardWindow ==
    ev.n_forward > 0 =>
        LET n == Len(ev.obs)
            k == Min(n, ev.max_len)
        IN  /\ Len(ev.fwd.states) <= ev.max_len
            /\ ev.max_len = ev.n_ctx \div 3
            /\ Len(ev.a) = n /\ Len(ev.rtg) = n /\ Len(ev.timesteps) = n
            /\ ev.fwd.states = SubSeq(ev.obs, n - k + 1, n)
            /\ ev.fwd.actions = SubSeq(ev.a, n - k + 1, n)
            /\ ev.fwd.rtgs = SubSeq(ev.rtg, n - k + 1, n)
            /\ ev.fwd.timesteps = SubSeq(ev.timesteps, n - k + 1, n)

\* a forward call on a history longer than the window
C3_Witness ==
    /\ ev.pc = "while"
    /\ Len(ev.obs) = 3 /\ ev.max_len = 1
    /\ ev.fwd.timesteps = <<2>>

\* how many episodes ended with the flag set
EndedWith(flag) ==
    Cardinality({k \in 1 .. Len(ev.end_flags) : ev.end_flags[k][flag]})

\* C5: the rates are the counts of episodes whose final step signalled
\* terminated / truncated over the number of episodes; all terminated and
\* none truncated gives 1.0 and 0.0.
C5_CompletionRates ==
    ev.pc = "returned" =>
        /\ Len(ev.end_flags) = ev.trajectories
        /\ ev.statistics.prop_completed =
               Frac(EndedWith("terminated"), ev.trajectories)
        /\ ev.statistics.prop_truncated =
               Frac(EndedWith("truncated"), ev.trajectories)
        /\ (\A k \in 1 .. Len(ev.end_flags) :
                ev.end_flags[k].terminated /\ ~ev.end_flags[k].truncated)
           => /\ ev.statistics.prop_completed.num =
                     ev.statistics.prop_completed.den
              /\ ev.statistics.prop_truncated.num = 0

\* two episodes, both ended terminated and not truncated
C5_Witness ==
    /\ ev.pc = "returned"
    /\ ev.trajectories = 2
    /\ \A k \in 1 .. 2 :
          ev.end_flags[k].terminated /\ ~ev.end_flags[k].truncated
    /\ ev.statistics.prop_completed = Frac(2, 2)

\* C11: the run goes on from an end-of-episode check to the next episode
\* (or to its return) only if at most one new video file appeared in the
\* video directory since the previous check; otherwise it aborts.
C11_AbortsOnSeveralNewVideos ==
    [][(ev.pc = "while" /\ ev'.pc = "for") => ev'.videos - ev.videos <= 1]_vars

\* C16: in every state of a rollout each RTG entry after the first is its
\* predecessor minus the reward of the env.step executed between the two,
\* and a step of an episode leaves the entries already present as they
\* are.
C16_RtgRecurrence ==
    /\ [](/\ Len(ev.rtg) <= Len(ev.step_rewards) + 1
          /\ \A k \in 2 .. Len(ev.rtg) :
                 ev.rtg[k] = ev.rtg[k - 1] - ev.step_rewards[k - 1])
    /\ [][(ev.pc = "while" /\ ev'.pc = "while") =>
              /\ Len(ev'.rtg) >= Len(ev.rtg)
              /\ SubSeq(ev'.rtg, 1, Len(ev.rtg)) = ev.rtg]_vars

\* an episode whose first reward was positive and whose second was not,
\* two iterations into the while loop
C16_Witness ==
    /\ ev.pc = "while" /\ ev.i = 2
    /\ ev.step_rewards[1] = 1 /\ ev.step_rewards[2] = 0
    /\ ev.rtg = <<ev.initial_rtg, ev.initial_rtg - 1, ev.initial_rtg - 1>>

\* C20: the trajectory length recorded for an episode is the number of
\* env.step calls made in it.
C20_LengthIsStepCount ==
    (ev.pc = "for" /\ ev.traj_lengths # <<>>) =>
        Last(ev.traj_lengths) = Len(ev.step_actions)

\* C21: once an env.step has returned terminated or truncated, the next
\* call made on the environment is the reset of the next episode, with the
\* next seed, or close after the last episode; never another env.step.
C21_NoStepAfterEpisodeEnd ==
    [][((ev.terminated \/ ev.truncated) /\ ev'.env_calls # <<>>) =>
          \/ /\ ev'.env_calls[1] = "reset"
             /\ ev'.seeds = Append(ev.seeds, Last(ev.seeds) + 1)
          \/ /\ ev'.env_calls = <<"close">>
             /\ Len(ev.seeds) = ev.trajectories]_vars

\* the reset of the second episode, the first having been cut off by the
\* step limit
C21_Witness ==
    /\ ev.pc = "while"
    /\ ev.seeds = <<0, 1>>
    /\ ev.env_calls = <<"reset", "step">>
    /\ ev.end_flags[1].truncated /\ ~ev.end_flags[1].terminated

\* C22: right after a reset, whatever the earlier episodes were, the
\* rollout holds one position (the initial state, action 0, the initial
\* RTG, timestep 0) and that is what the first forward call gets; at every
\* later forward call the four histories have the same length, one
\* position per loop iteration more, and the timesteps are 0, 1, 2, ...
C22_RolloutStateWellFormed ==
    ev.pc = "while" =>
        /\ Len(ev.obs) = ev.i + 1
        /\ Len(ev.a) = Len(ev.obs)
        /\ Len(ev.rtg) = Len(ev.obs)
        /\ Len(ev.timesteps) = Len(ev.obs)
        /\ ev.timesteps = [k \in 1 .. Len(ev.obs) |-> k - 1]
        /\ ev.obs[1] = 0 /\ ev.a[1] = 0 /\ ev.rtg[1] = ev.initial_rtg
        /\ ev.i = 0 =>
               ev.fwd = ForwardCall(<<0>>, <<0>>, <<ev.initial_rtg>>, <<0>>,
                                    FALSE)

\* the second episode two iterations into its loop, after a first episode
\* that went to the step limit
C22_Witness ==
    /\ ev.pc = "while"
    /\ ev.seeds = <<0, 1>> /\ ev.traj_lengths = <<MaxSteps - 1>>
    /\ ev.i = 2 /\ ev.timesteps = <<0, 1, 2>>

\* the call has ended, by returning or by a failed assertion
Ended == ev.pc \in {"returned", "aborted"}

\* the episodes a returned call has run: seeds 0 .. trajectories-1 in
\* order, one length and one reward recorded for each
AllEpisodesRun ==
    /\ ev.seeds = [k \in 1 .. ev.trajectories |-> k - 1]
    /\ Len(ev.statistics.traj_lengths) = ev.trajectories
    /\ Len(ev.statistics.rewards) = ev.trajectories
    /\ Len(ev.end_flags) = ev.trajectories

----------------------------------------------------------------------------
(* SpecPair: the same evaluate_dt_agent call made twice, with track=True   *)
(* (ev) and with track=False (evTwin), against the same model and the same *)
(* environment behaviour: every argmax, reward, terminated answer and      *)
(* change of the video directory is handed to both runs.  A run that has   *)
(* aborted takes no further step.                                          *)

InitPair ==
    /\ \E n \in CtxLens, k \in 1 .. MaxTraj, r \in InitialRtgs :
          /\ ev = EvalCall(n, k, r, TRUE)
          /\ evTwin = EvalCall(n, k, r, FALSE)
    /\ tr = Idle /\ lb = Idle /\ app = Idle /\ fac = Idle
    /\ ld = Idle /\ tw = Idle

PairBegin ==
    /\ ev.pc = "call" /\ evTwin.pc = "call"
    /\ ev' = EvalBegin(ev)
    /\ evTwin' = EvalBegin(evTwin)
    /\ UNCHANGED <<tr, lb, app, fac, ld, tw>>

PairReset ==
    /\ AtReset(ev) \/ AtReset(evTwin)
    /\ \E act \in Actions, rew \in Rewards, term \in BOOLEAN :
          /\ ev' = IF AtReset(ev) THEN EpisodeReset(ev, act, rew, term)
                   ELSE ev
          /\ evTwin' = IF AtReset(evTwin)
                       THEN EpisodeReset(evTwin, act, rew, term)
                       ELSE evTwin
    /\ UNCHANGED <<tr, lb, app, fac, ld, tw>>

PairStep ==
    /\ AtStep(ev) \/ AtStep(evTwin)
    /\ \E act \in Actions, rew \in Rewards, term \in BOOLEAN :
          /\ ev' = IF AtStep(ev) THEN WhileBody(ev, act, rew, term) ELSE ev
          /\ evTwin' = IF AtStep(evTwin)
                       THEN WhileBody(evTwin, act, rew, term)
                       ELSE evTwin
    /\ UNCHANGED <<tr, lb, app, fac, ld, tw>>

PairTerminal ==
    /\ AtTerminal(ev) \/ AtTerminal(evTwin)
    /\ \E new \in 0 .. (MaxVideos - evTwin.videos) :
          /\ ev' = IF AtTerminal(ev) THEN EpisodeEnd(ev, new) ELSE ev
          /\ evTwin' = IF AtTerminal(evTwin) THEN EpisodeEnd(evTwin, new)
                       ELSE evTwin
    /\ UNCHANGED <<tr, lb, app, fac, ld, tw>>

PairReturn ==
    /\ AtReturn(ev) \/ AtReturn(evTwin)
    /\ ev' = IF AtReturn(ev) THEN EvalReturn(ev) ELSE ev
    /\ evTwin' = IF AtReturn(evTwin) THEN EvalReturn(evTwin) ELSE evTwin
    /\ UNCHANGED <<tr, lb, app, fac, ld, tw>>

NextPair == PairBegin \/ PairReset \/ PairStep \/ PairTerminal \/ PairReturn

SpecPair == InitPair /\ [][NextPair]_vars

\* what a caller and the collaborators other than the metrics sink see of
\* a run: everything but the flag itself and the calls to the sink
Observable(e) == [e EXCEPT !.track = FALSE, !.log_calls = 0]

\* C8: with tracking on and with tracking off the run makes the same
\* forward calls and environment steps, ends the same way (returned or
\* aborted) and returns the same statistics.
C8_TrackingIsInert == Observable(ev) = Observable(evTwin)

----------------------------------------------------------------------------
(* train, with the calls it makes to test, make_env and evaluate_dt_agent. *)
(* The record tr holds the arguments and locals of train, the module's     *)
(* mode (dt.training), and counters of what was done to the parameters.    *)
(* fwd_by / fwd_training record the latest forward call, events the phases *)
(* the current epoch went through, test_at / eval_at the number of         *)
(* TrainSteps completed when each TestEval / RolloutEval began, and        *)
(* eval_calls, envs_made and env_open what the RolloutEvals did.           *)

\* the values of initial_rtg: the default of line 32, or no value at all
InitialRtgLists == {<<>>, <<0, 1>>}

TrainCall(epochs, B, TB, test_epochs, tf, ef, episodes, rtgs, track, mode) ==
    [pc |-> "batches",
     train_epochs |-> epochs, train_batches_per_epoch |-> B,
     test_batches_per_epoch |-> TB, test_epochs |-> test_epochs,
     test_frequency |-> tf, eval_frequency |-> ef,
     eval_episodes |-> episodes, initial_rtg |-> rtgs,
     track |-> track,
     training |-> mode,
     epoch |-> 0, batch |-> 0, next_batch |-> 0, total_batches |-> 0,
     n_backward |-> 0, n_optimizer_step |-> 0, writers |-> {},
     t_epoch |-> 0, t_batch |-> 0, loss |-> 0, mean_loss |-> Frac(0, 1),
     factory_calls |-> 0, r_idx |-> 1,
     eval_calls |-> 0, envs_made |-> 0, env_open |-> FALSE,
     test_at |-> <<>>, eval_at |-> <<>>,
     fwd_by |-> "none", fwd_training |-> FALSE, n_forward |-> 0,
     events |-> <<>>, log_step |-> -1, error |-> ""]

\* the phase an event belongs to is appended when it differs from the
\* latest one of the epoch
Event(events, phase) ==
    IF events # <<>> /\ Last(events) = phase THEN events
    ELSE Append(events, phase)

\* a slip: the mode is left as the previous phase set it
ModeLeftAlone(t) == t.training

\* line 66: dt.train()
ModeForTrainStep(t) == TRUE

\* a slip: the periodic evaluations are run after every batch
AfterBatchAlwaysTest(t) == "test_if"

\* lines 63 and 103: the batch loop goes on until the loader is exhausted
AfterBatch(t) ==
    IF t.next_batch + 1 >= t.train_batches_per_epoch
    THEN "test_if" ELSE "batches"

\* a slip: the batch index within the epoch is used as the step
TotalBatchesInEpoch(t) == t.next_batch

\* line 64: total_batches = epoch * train_batches_per_epoch + batch
TotalBatches(t) == t.epoch * t.train_batches_per_epoch + t.next_batch

\* lines 63-101: one batch: mode switch, forward, backward, optimizer step
TrainBatch(t) ==
    LET total == TotalBatches(t)
        mode == ModeForTrainStep(t)
    IN  [t EXCEPT !.batch = t.next_batch,
                  !.next_batch = @ + 1,
                  !.total_batches = total,
                  !.training = mode,
                  !.fwd_by = "train", !.fwd_training = mode,
                  !.n_forward = @ + 1,
                  !.n_backward = @ + 1,
                  !.n_optimizer_step = @ + 1,
                  !.writers = @ \cup {"train"},
                  !.log_step = IF t.track THEN total ELSE @,
                  !.events = Event(@, "train"),
                  !.pc = AfterBatch(t)]

\* lines 104-111 and 151-160: the test call is entered, dt.eval()
TestEnter(t) ==
    [t EXCEPT !.training = FALSE,
              !.loss = 0, !.t_epoch = 0, !.t_batch = 0,
              !.test_at = Append(@, t.n_optimizer_step),
              !.events = Event(@, "test"),
              !.pc = "test_for"]

\* lines 163-191: one held-out batch
TestBatch(t, batch_loss) ==
    LET last_batch == t.t_batch + 1 >= t.test_batches_per_epoch
        last_epoch == t.t_epoch + 1 >= t.test_epochs
    IN  [t EXCEPT !.fwd_by = "test", !.fwd_training = t.training,
                  !.n_forward = @ + 1,
                  !.loss = @ + batch_loss,
                  !.t_batch = IF last_batch THEN 0 ELSE @ + 1,
                  !.t_epoch = IF last_batch THEN @ + 1 ELSE @,
                  !.events = Event(@, "test"),
                  !.pc = IF last_batch /\ last_epoch
                         THEN "test_end" ELSE "test_for"]

\* loss.item() / epochs*test_batches_per_epoch
MeanLoss(t) == Frac(t.loss * t.test_batches_per_epoch, t.test_epochs)

\* lines 193-199
TestReturn(t) ==
    [t EXCEPT !.mean_loss = MeanLoss(t),
              !.log_step = IF t.track THEN t.total_batches ELSE @,
              !.events = Event(@, "test"),
              !.pc = "make_env"]

\* line 104, condition false
TestSkip(t) == [t EXCEPT !.pc = "make_env"]

\* a slip: the period is counted in batches
EvalDueByBatch(t) == t.total_batches % t.eval_frequency = 0

\* line 128: the rollout evaluation is due in this epoch
EvalDue(t) == t.epoch % t.eval_frequency = 0

\* lines 113-129: the factory call, then the eval_frequency test
MakeEvalEnv(t) ==
    [t EXCEPT !.factory_calls = @ + 1,
              !.r_idx = IF EvalDue(t) THEN 1 ELSE Len(t.initial_rtg) + 1,
              !.eval_at = IF EvalDue(t)
                          THEN Append(@, t.n_optimizer_step) ELSE @,
              !.pc = "eval_for"]

\* lines 130-138 against the signature of lines 202-211: the call passes
\* the keyword env_id, the function's first parameter is env_ids and has
\* no default, so binding the arguments raises TypeError before the first
\* statement of evaluate_dt_agent (dt.eval(), env_func()) is reached; the
\* exception is not caught in train
RolloutEnter(t) ==
    [t EXCEPT !.eval_calls = @ + 1,
              !.events = Event(@, "rollout"),
              !.error = "TypeError: unexpected keyword argument env_id",
              !.pc = "aborted"]

\* line 62: the next epoch, or line 140
EpochEnd(t) ==
    [t EXCEPT !.epoch = @ + 1,
              !.next_batch = 0,
              !.events = <<>>,
              !.pc = IF t.epoch + 1 >= t.train_epochs
                     THEN "done" ELSE "batches"]

InitTrain ==
    /\ \E B \in 1 .. MaxBatches, TB \in 1 .. MaxBatches,
          te \in 1 .. MaxTestEpochs, tf \in Frequencies, ef \in Frequencies,
          k \in EvalEpisodes, rtgs \in InitialRtgLists,
          t \in BOOLEAN, m \in BOOLEAN :
          tr = TrainCall(MaxEpochs, B, TB, te, tf, ef, k, rtgs, t, m)
    /\ ev = Idle /\ evTwin = Idle /\ lb = Idle /\ app = Idle /\ fac = Idle
    /\ ld = Idle /\ tw = Idle

TrainStep ==
    /\ tr.pc = "batches"
    /\ tr' = TrainBatch(tr)
    /\ UNCHANGED <<ev, evTwin, lb, app, fac, ld, tw>>

TestBegin ==
    /\ tr.pc = "test_if"
    /\ tr.epoch % tr.test_frequency = 0
    /\ tr' = TestEnter(tr)
    /\ UNCHANGED <<ev, evTwin, lb, app, fac, ld, tw>>

TestNotDue ==
    /\ tr.pc = "test_if"
    /\ tr.epoch % tr.test_frequency # 0
    /\ tr' = TestSkip(tr)
    /\ UNCHANGED <<ev, evTwin, lb, app, fac, ld, tw>>

TestStep ==
    /\ tr.pc = "test_for"
    /\ \E l \in BatchLosses : tr' = TestBatch(tr, l)
    /\ UNCHANGED <<ev, evTwin, lb, app, fac, ld, tw>>

TestEnd ==
    /\ tr.pc = "test_end"
    /\ tr' = TestReturn(tr)
    /\ UNCHANGED <<ev, evTwin, lb, app, fac, ld, tw>>

EvalEnvFunc ==
    /\ tr.pc = "make_env"
    /\ tr' = MakeEvalEnv(tr)
    /\ UNCHANGED <<ev, evTwin, lb, app, fac, ld, tw>>

RolloutBegin ==
    /\ tr.pc = "eval_for"
    /\ tr.r_idx <= Len(tr.initial_rtg)
    /\ tr' = RolloutEnter(tr)
    /\ UNCHANGED <<ev, evTwin, lb, app, fac, ld, tw>>

NextEpoch ==
    /\ tr.pc = "eval_for"
    /\ tr.r_idx > Len(tr.initial_rtg)
    /\ tr' = EpochEnd(tr)
    /\ UNCHANGED <<ev, evTwin, lb, app, fac, ld, tw>>

NextTrain ==
    \/ TrainStep \/ TestBegin \/ TestNotDue \/ TestStep \/ TestEnd
    \/ EvalEnvFunc \/ RolloutBegin \/ NextEpoch

SpecTrain == InitTrain /\ [][NextTrain]_vars

----------------------------------------------------------------------------
(* Properties of the training loop (SpecTrain) *)

\* the TrainSteps completed so far
TrainStepsDone == tr.epoch * tr.train_batches_per_epoch + tr.next_batch

\* C6: backward passes and optimizer steps happen in TrainStep only (one of
\* each per TrainStep, none in test or evaluate_dt_agent); every forward
\* call of test and evaluate_dt_agent finds the model in evaluation mode and
\* every forward call of a TrainStep finds it in training mode.
C6_EvaluationDoesNotTrain ==
    /\ tr.writers \subseteq {"train"}
    /\ tr.n_backward = TrainStepsDone
    /\ tr.n_optimizer_step = TrainStepsDone
    /\ tr.fwd_by \in {"test", "rollout"} => ~tr.fwd_training
    /\ tr.fwd_by = "train" => tr.fwd_training

\* the first TrainStep of the second epoch, after the TestEval and the
\* RolloutEval (over no initial RTG) of the first
C6_Witness ==
    /\ tr.epoch = 1 /\ tr.next_batch = 1
    /\ tr.fwd_by = "train" /\ tr.fwd_training
    /\ Len(tr.test_at) = 1 /\ Len(tr.eval_at) = 1 /\ tr.n_forward > 3

\* C7: within an epoch the phases come in the order TrainStep, TestEval,
\* RolloutEval; TestEval and RolloutEval start only after the epoch's last
\* TrainStep, RolloutEval only after test went through all its batches, and
\* a TrainStep only with no evaluation environment open; the run is done
\* after the last epoch.
C7_PhasesInOrder ==
    /\ tr.events \in {<<>>, <<"train">>, <<"train", "test">>,
                      <<"train", "rollout">>, <<"train", "test", "rollout">>}
    /\ Len(tr.events) >= 2 => tr.next_batch = tr.train_batches_per_epoch
    /\ (Len(tr.events) = 3 \/ tr.pc = "make_env") =>
           (tr.pc # "test_for" /\ tr.pc # "test_end"
            /\ (tr.epoch % tr.test_frequency = 0 =>
                    tr.t_epoch = tr.test_epochs /\ tr.t_batch = 0))
    /\ tr.pc = "batches" =>
           (~tr.env_open /\ tr.next_batch < tr.train_batches_per_epoch
            /\ tr.epoch < tr.train_epochs)
    /\ tr.pc = "done" => (tr.epoch = tr.train_epochs /\ ~tr.env_open)

\* an epoch of two TrainSteps, then test, then the call of the rollout
\* evaluator
C7_Witness ==
    /\ tr.events = <<"train", "test", "rollout">>
    /\ tr.train_batches_per_epoch = 2 /\ tr.next_batch = 2
    /\ tr.n_optimizer_step = 2 /\ tr.t_epoch = tr.test_epochs
    /\ tr.eval_calls = 1

\* how many of the epochs 0 .. e-1 are multiples of f
EpochsDue(e, f) == Cardinality({x \in 0 .. (e - 1) : x % f = 0})

\* the epochs whose TestEval / RolloutEval decision has been taken
TestDecided ==
    IF tr.pc \in {"batches", "test_if", "done"} THEN tr.epoch ELSE tr.epoch + 1
EvalDecided ==
    IF tr.pc \in {"eval_for", "aborted"} THEN tr.epoch + 1 ELSE tr.epoch

\* C17 as claimed: consecutive TestEvals are test_frequency TrainSteps
\* apart and consecutive RolloutEvals eval_frequency TrainSteps apart, a
\* TrainStep being one batch.
C17_EveryFrequencySteps ==
    /\ \A k \in 2 .. Len(tr.test_at) :
           tr.test_at[k] - tr.test_at[k - 1] = tr.test_frequency
    /\ \A k \in 2 .. Len(tr.eval_at) :
           tr.eval_at[k] - tr.eval_at[k - 1] = tr.eval_frequency

\* C17 amended: the periods count epochs.  TestEval begins after the last
\* batch of every epoch whose index is a multiple of test_frequency and of
\* no other epoch, and the RolloutEval loop is entered after the last
\* batch of every epoch whose index is a multiple of eval_frequency and of
\* no other: the first after train_batches_per_epoch TrainSteps, the next
\* ones frequency * train_batches_per_epoch TrainSteps apart.
C17_EveryFrequencyEpochs ==
    /\ Len(tr.test_at) = EpochsDue(TestDecided, tr.test_frequency)
    /\ Len(tr.eval_at) = EpochsDue(EvalDecided, tr.eval_frequency)
    /\ \A k \in 1 .. Len(tr.test_at) :
           tr.test_at[k] =
               ((k - 1) * tr.test_frequency + 1) * tr.train_batches_per_epoch
    /\ \A k \in 1 .. Len(tr.eval_at) :
           tr.eval_at[k] =
               ((k - 1) * tr.eval_frequency + 1) * tr.train_batches_per_epoch

\* three epochs of two batches, tested every second epoch and evaluated
\* every epoch
C17_Witness ==
    /\ tr.train_batches_per_epoch = 2
    /\ tr.test_frequency = 2 /\ tr.eval_frequency = 1
    /\ tr.test_at = <<2, 6>> /\ tr.eval_at = <<2, 4, 6>>

\* C18: every call of the rollout evaluator that train makes runs to
\* completion: it creates an environment from the factory, runs its
\* episodes, and returns to train with that environment closed.
C18_EveryRtgEvaluated ==
    /\ tr.envs_made = tr.eval_calls
    /\ tr.pc # "aborted"
    /\ tr.pc = "eval_for" => ~tr.env_open

\* C19: the value test returns is the summed loss over the number of
\* batches evaluated, test_epochs * test_batches_per_epoch.
C19_MeanLossIsMean ==
    (tr.pc = "make_env" /\ Last(tr.events) = "test") =>
        tr.mean_loss.num * (tr.test_epochs * tr.test_batches_per_epoch)
            = tr.loss * tr.mean_loss.den

\* C24: the step handed to the metrics sink never decreases during a run
\* of train.  A TrainStep logs at epoch * batches_per_epoch + batch, more
\* than any step logged before it; the TestEval of an epoch logs at the
\* value of the epoch's last TrainStep.
C24_LogStepNeverDecreases ==
    /\ [][tr'.log_step >= tr.log_step]_vars
    /\ [][(tr.track /\ tr'.n_optimizer_step > tr.n_optimizer_step) =>
              /\ tr'.log_step =
                     tr.epoch * tr.train_batches_per_epoch + tr.next_batch
              /\ tr'.log_step > tr.log_step]_vars
    /\ [][(tr.track /\ tr.pc = "test_end" /\ tr'.pc # "test_end") =>
              /\ tr'.log_step = (tr.epoch + 1) * tr.train_batches_per_epoch - 1
              /\ tr'.log_step = tr.log_step]_vars

\* a tracked run in the first TrainStep of its second epoch, after two
\* TrainSteps and a TestEval in the first
C24_Witness ==
    /\ tr.track /\ tr.train_batches_per_epoch = 2
    /\ tr.epoch = 1 /\ tr.next_batch = 1
    /\ tr.test_at = <<2>>
    /\ tr.log_step = 2

----------------------------------------------------------------------------
(* The loss code of train (lines 71-89) and test (lines 167-190) on one     *)
(* batch.  stored is the action tensor as the loader yields it, flattened;  *)
(* a_hat the argmax of the logits and ce the cross-entropy term of each     *)
(* position (both opaque results of the forward pass).                      *)

\* what the loader may hold at a position: the marker, a real action, or
\* the padding action num_actions
StoredActions == {NoActionMarker} \cup Actions \cup {NumActions}
Predictions == Actions \cup {NumActions}

\* a slip: the marker is left in the tensor
KeepMarker(a) == a

\* a[a == -10] = env.action_space.n
ReplaceMarker(a) ==
    [p \in DOMAIN a |-> IF a[p] = NoActionMarker THEN NumActions ELSE a[p]]

\* the positions selected by the mask a_exp != env.action_space.n
Kept(a_exp) == {p \in DOMAIN a_exp : a_exp[p] # NumActions}

\* the sum of x over the positions of the set ps
SumOver(x, ps) ==
    SumSeq([p \in DOMAIN x |-> IF p \in ps THEN x[p] ELSE 0])

\* nn.CrossEntropyLoss() (mean reduction) over the selected positions
CrossEntropy(ce, ps) == Frac(SumOver(ce, ps), Cardinality(ps))

LossCall(fn) ==
    [pc |-> "next", fn |-> fn, batches |-> 0,
     stored |-> <<>>, a |-> <<>>, a_hat |-> <<>>, ce |-> <<>>,
     kept |-> {}, batch_loss |-> Frac(0, 1),
     n_actions |-> 0, n_correct |-> 0,
     prev_n_actions |-> 0, prev_n_correct |-> 0,
     accuracy |-> Frac(0, 1), error |-> ""]

\* lines 63 and 163: the loader yields the next batch
LoadBatch(l, stored) ==
    [l EXCEPT !.pc = "loaded", !.stored = stored,
              !.a = <<>>, !.a_hat = <<>>, !.ce = <<>>, !.kept = {}]

\* train, lines 64-92: the loss of one training batch
TrainLoss(l, a_hat, ce) ==
    LET a == ReplaceMarker(l.stored)
        a_exp == a
    IN  [l EXCEPT !.pc = "next", !.a = a, !.a_hat = a_hat, !.ce = ce,
                  !.kept = Kept(a_exp),
                  !.batch_loss = CrossEntropy(ce, Kept(a_exp)),
                  !.batches = @ + 1]

\* test, lines 164-191: the loss and the accuracy counters of one batch
TestLoss(l, a_hat, ce) ==
    LET a == ReplaceMarker(l.stored)
        a_exp == a
        kept == Kept(a_exp)
        n_actions == l.n_actions + Cardinality(kept)
        n_correct == l.n_correct
                     + Cardinality({p \in kept : a_hat[p] = a_exp[p]})
        l1 == [l EXCEPT !.pc = "next", !.a = a, !.a_hat = a_hat,
                        !.ce = ce, !.kept = kept,
                        !.batch_loss = CrossEntropy(ce, kept),
                        !.prev_n_actions = l.n_actions,
                        !.prev_n_correct = l.n_correct,
                        !.n_actions = n_actions,
                        !.n_correct = n_correct,
                        !.batches = @ + 1]
    IN  IF n_actions = 0
        THEN [l1 EXCEPT !.pc = "aborted", !.error = "ZeroDivisionError"]
        ELSE [l1 EXCEPT !.accuracy = Frac(n_correct, n_actions)]

Batches == [1 .. MaxPositions -> StoredActions]

InitLoss ==
    /\ \E fn \in {"train", "test"} : lb = LossCall(fn)
    /\ ev = Idle /\ evTwin = Idle /\ tr = Idle /\ app = Idle /\ fac = Idle
    /\ ld = Idle /\ tw = Idle

NextBatch ==
    /\ lb.pc = "next"
    /\ lb.batches < MaxLossBatches
    /\ \E stored \in Batches : lb' = LoadBatch(lb, stored)
    /\ UNCHANGED <<ev, evTwin, tr, app, fac, ld, tw>>

TrainLossBatch ==
    /\ lb.pc = "loaded" /\ lb.fn = "train"
    /\ \E a_hat \in [1 .. MaxPositions -> Predictions],
          ce \in [1 .. MaxPositions -> PositionLosses] :
          lb' = TrainLoss(lb, a_hat, ce)
    /\ UNCHANGED <<ev, evTwin, tr, app, fac, ld, tw>>

TestLossBatch ==
    /\ lb.pc = "loaded" /\ lb.fn = "test"
    /\ \E a_hat \in [1 .. MaxPositions -> Predictions],
          ce \in [1 .. MaxPositions -> PositionLosses] :
          lb' = TestLoss(lb, a_hat, ce)
    /\ UNCHANGED <<ev, evTwin, tr, app, fac, ld, tw>>

NextLoss == NextBatch \/ TrainLossBatch \/ TestLossBatch

SpecLoss == InitLoss /\ [][NextLoss]_vars

\* the target of a stored action once the marker has been replaced
Target(stored) ==
    [p \in DOMAIN stored |->
        IF stored[p] = NoActionMarker THEN NumActions ELSE stored[p]]

\* C4: in train and in test a position contributes to the loss, and in test
\* to the accuracy numerator and denominator, iff its target action (marker
\* replaced by num_actions) differs from num_actions; the loss and the
\* counters are functions of those positions alone.
C4_DummyPositionsExcluded ==
    (lb.batches > 0 /\ lb.pc # "loaded") =>
        LET target == Target(lb.stored)
            inc == {p \in DOMAIN lb.stored : target[p] # NumActions}
        IN  /\ lb.kept = inc
            /\ lb.batch_loss.den = Cardinality(inc)
            /\ lb.batch_loss.num = SumOver(lb.ce, inc)
            /\ lb.fn = "test" =>
                 /\ lb.n_actions - lb.prev_n_actions = Cardinality(inc)
                 /\ lb.n_correct - lb.prev_n_correct =
                        Cardinality({p \in inc : lb.a_hat[p] = target[p]})

\* a test batch with one marker position, whose prediction happens to be
\* num_actions, and one real position predicted correctly
C4_Witness ==
    /\ lb.fn = "test" /\ lb.batches = 2 /\ lb.pc = "next"
    /\ lb.stored = <<NoActionMarker, 1>>
    /\ lb.a_hat = <<NumActions, 1>>
    /\ lb.kept = {2}
    /\ lb.n_correct - lb.prev_n_correct = 1

----------------------------------------------------------------------------
(* The interactive session: get_action_preds and respond_to_action over    *)
(* st.session_state.                                                       *)

\* responses the session may collect before it is reset
MaxSession == 3

\* pad_tensor(x, length, pad_token): x padded at the start to the length
PadTensor(x, length, pad_token) ==
    [p \in 1 .. (length - Len(x)) |-> pad_token] \o x

\* the session as the front end sets it up after a reset of the environment
SessionStart(n_ctx, initial_rtg) ==
    [pc |-> "ready", n_ctx |-> n_ctx, initial_rtg |-> initial_rtg,
     obs |-> <<0>>, a |-> <<0>>, reward |-> <<0>>,
     rtg |-> <<initial_rtg>>, timesteps |-> <<0>>,
     timestep_adjustment |-> 0,
     done |-> FALSE, env_steps |-> 0,
     fwd |-> NoForward, fwd_len |-> 0, n_forward |-> 0]

\* lines 69-104: the window, padded when short, and the forward call
GetActionPreds(s) ==
    LET max_len == s.n_ctx \div 3
        ts0  == [p \in DOMAIN PySliceLast(s.timesteps, max_len) |->
                    PySliceLast(s.timesteps, max_len)[p]
                    + s.timestep_adjustment]
        obs0 == PySliceLast(s.obs, max_len)
        a0   == PySliceLast(s.a, max_len)
        rtg0 == PySliceLast(s.rtg, max_len)
        short == Len(obs0) < max_len
        obs1 == IF short THEN PadTensor(obs0, max_len, 0) ELSE obs0
        a1   == IF short THEN PadTensor(a0, max_len, NumActions) ELSE a0
        rtg1 == IF short THEN PadTensor(rtg0, max_len, 0) ELSE rtg0
        ts1  == IF short THEN PadTensor(ts0, max_len, 0) ELSE ts0
    IN  [s EXCEPT !.fwd = ForwardCall(obs1, a1, rtg1, ts1, FALSE),
                  !.fwd_len = max_len,
                  !.n_forward = @ + 1]

\* a slip: the summed rewards are taken off the latest RTG
SessionRtgFromLast(s, rewards) == Last(s.rtg) - SumSeq(rewards)

\* line 121: rtg = initial_rtg - st.session_state.reward.sum()
SessionRtg(s, rewards) == s.initial_rtg - SumSeq(rewards)

\* lines 107-127: the action is executed and the session extended
RespondToAction(s, action, reward, done) ==
    LET rewards == Append(s.reward, reward)
    IN  [s EXCEPT !.obs = Append(@, s.env_steps + 1),
                  !.a = Append(@, action),
                  !.reward = rewards,
                  !.rtg = Append(@, SessionRtg(s, rewards)),
                  !.timesteps = Append(@, Last(s.timesteps) + 1),
                  !.env_steps = @ + 1,
                  !.done = done]

InitApp ==
    /\ \E n \in CtxLens, r \in InitialRtgs : app = SessionStart(n, r)
    /\ ev = Idle /\ evTwin = Idle /\ tr = Idle /\ lb = Idle /\ fac = Idle
    /\ ld = Idle /\ tw = Idle

\* the front end renders once after the reset and once after each response
ActionPreds ==
    /\ app.pc = "ready"
    /\ app.n_forward <= app.env_steps
    /\ app' = GetActionPreds(app)
    /\ UNCHANGED <<ev, evTwin, tr, lb, fac, ld, tw>>

Respond ==
    /\ app.pc = "ready"
    /\ app.env_steps < MaxSession
    /\ \E action \in Actions, reward \in Rewards, done \in BOOLEAN :
          app' = RespondToAction(app, action, reward, done)
    /\ UNCHANGED <<ev, evTwin, tr, lb, fac, ld, tw>>

NextApp == ActionPreds \/ Respond

SpecApp == InitApp /\ [][NextApp]_vars

\* C9: an operation that derives max_len from n_ctx issues no forward call
\* and no environment step when n_ctx is not divisible by 3 (here for
\* get_action_preds; evaluate_dt_agent asserts it at line 221).
C9_IndivisibleContextIsFatal ==
    app.n_forward > 0 => app.n_ctx % 3 = 0

\* C23: in a session started with RTG history [initial_rtg] and rewards
\* summing to 0, every RTG appended by respond_to_action is initial_rtg
\* minus the sum of the rewards observed so far, which is the RTG appended
\* before it minus the reward just received.
C23_SessionRtgRecurrence ==
    /\ Len(app.rtg) = app.env_steps + 1
    /\ Len(app.reward) = Len(app.rtg)
    /\ \A k \in 2 .. Len(app.rtg) :
           /\ app.rtg[k] =
                  app.initial_rtg - SumSeq(SubSeq(app.reward, 1, k))
           /\ app.rtg[k] = app.rtg[k - 1] - app.reward[k]

\* three responses with rewards 1, 0 and 1
C23_Witness ==
    /\ app.env_steps = 3
    /\ app.reward = <<0, 1, 0, 1>>
    /\ app.rtg = <<app.initial_rtg, app.initial_rtg - 1,
                   app.initial_rtg - 1, app.initial_rtg - 2>>

\* C12: for the same history, get_action_preds hands the model what
\* evaluate_dt_agent hands it: the same positions, the same window length,
\* the same padding.
C12_SameWindowAsEvaluator ==
    (app.n_forward = app.env_steps + 1 /\ app.n_ctx % 3 = 0) =>
        LET max_len == app.n_ctx \div 3
        IN  app.fwd = ForwardCall(TruncateWindow(app.obs, max_len),
                                  TruncateWindow(app.a, max_len),
                                  TruncateWindow(app.rtg, max_len),
                                  TruncateWindow(app.timesteps, max_len),
                                  FALSE)

----------------------------------------------------------------------------
(* make_env: the environment factory and the thunk it returns.             *)
(* fac is a caller that calls the factory and then the returned thunk.     *)

\* factory calls one caller makes
MaxCalls == 2
ViewSizes == {4, 5, 7}

NoThunk == [made |-> FALSE]

\* a slip: the flags are not checked by the factory
FlagsNeverRejected(fully_observed, flat_one_hot) == FALSE

\* lines 50-51: the condition of the assertion
FlagsRejected(fully_observed, flat_one_hot) ==
    fully_observed /\ flat_one_hot

FactoryCaller ==
    [pc |-> "caller", calls |-> 0, outcome |-> "none", thunk |-> NoThunk,
     fully_observed |-> FALSE, flat_one_hot |-> FALSE,
     envs_made |-> 0, envs_at_call |-> 0, resets |-> 0,
     wrappers |-> <<>>, thunk_error |-> ""]

\* lines 43-53 and 90: the call either fails on the assertion or returns
\* the closure over its arguments
MakeEnv(f, capture_video, idx, fully_observed, flat_one_hot, view, minigrid) ==
    LET agent_view_size == view
        f1 == [f EXCEPT !.calls = @ + 1,
                        !.fully_observed = fully_observed,
                        !.flat_one_hot = flat_one_hot,
                        !.envs_at_call = f.envs_made,
                        !.wrappers = <<>>, !.thunk_error = ""]
    IN  IF FlagsRejected(fully_observed, flat_one_hot)
        THEN [f1 EXCEPT !.outcome = "AssertionError", !.thunk = NoThunk]
        ELSE [f1 EXCEPT !.outcome = "returned",
                        !.thunk = [made |-> TRUE,
                                   capture_video |-> capture_video,
                                   idx |-> idx,
                                   fully_observed |-> fully_observed,
                                   flat_one_hot |-> flat_one_hot,
                                   agent_view_size |-> agent_view_size,
                                   minigrid |-> minigrid]]

\* lines 64-82: the wrappers put around the environment, innermost first
Wrappers(th) ==
    <<"RecordEpisodeStatistics">>
    \o (IF th.capture_video /\ th.idx = 0 THEN <<"RecordVideo">> ELSE <<>>)
    \o (IF th.minigrid /\ th.fully_observed
        THEN <<"FullyObsWrapper">> ELSE <<>>)
    \o (IF th.minigrid /\ th.agent_view_size # 7
        THEN <<"ViewSizeWrapper">> ELSE <<>>)
    \o (IF th.minigrid /\ th.flat_one_hot
        THEN <<"OneHotPartialObsWrapper">> ELSE <<>>)

\* lines 116-117: what ViewSizeWrapper accepts
ViewSizeOk(size) == size % 2 = 1 /\ size >= 3

\* lines 53-88: the thunk builds, wraps and resets an environment
Thunk(f) ==
    LET th == f.thunk
    IN  IF th.minigrid /\ th.agent_view_size # 7
           /\ ~ViewSizeOk(th.agent_view_size)
        THEN [f EXCEPT !.envs_made = @ + 1,
                       !.thunk_error = "AssertionError"]
        ELSE [f EXCEPT !.envs_made = @ + 1,
                       !.wrappers = Wrappers(th),
                       !.resets = @ + 1,
                       !.thunk_error = ""]

InitEnv ==
    /\ fac = FactoryCaller
    /\ ev = Idle /\ evTwin = Idle /\ tr = Idle /\ lb = Idle /\ app = Idle
    /\ ld = Idle /\ tw = Idle

CallMakeEnv ==
    /\ fac.pc = "caller"
    /\ fac.calls < MaxCalls
    /\ \E cv \in BOOLEAN, idx \in {0, 1}, fo \in BOOLEAN, oh \in BOOLEAN,
          size \in ViewSizes, mg \in BOOLEAN :
          fac' = MakeEnv(fac, cv, idx, fo, oh, size, mg)
    /\ UNCHANGED <<ev, evTwin, tr, lb, app, ld, tw>>

CallThunk ==
    /\ fac.pc = "caller"
    /\ fac.thunk.made
    /\ fac.envs_made < MaxCalls
    /\ fac' = Thunk(fac)
    /\ UNCHANGED <<ev, evTwin, tr, lb, app, ld, tw>>

NextEnv == CallMakeEnv \/ CallThunk

SpecEnv == InitEnv /\ [][NextEnv]_vars

\* C10: the factory call fails exactly when both flags are set, and then no
\* thunk is returned and no environment has been built, wrapped or reset by
\* that call; with any other flags it returns a thunk.
C10_ExclusiveFlagsFailAtFactory ==
    fac.calls > 0 =>
        /\ (fac.fully_observed /\ fac.flat_one_hot)
               <=> fac.outcome = "AssertionError"
        /\ fac.outcome = "AssertionError" =>
               /\ ~fac.thunk.made
               /\ fac.envs_made = fac.envs_at_call
               /\ fac.wrappers = <<>>
        /\ ~(fac.fully_observed /\ fac.flat_one_hot) =>
               fac.outcome = "returned" /\ fac.thunk.made

\* a second call with both flags set, after a first one whose thunk built
\* an environment
C10_Witness ==
    /\ fac.calls = 2 /\ fac.envs_made = 1
    /\ fac.fully_observed /\ fac.flat_one_hot
    /\ fac.outcome = "AssertionError"

----------------------------------------------------------------------------
(* get_env_and_dt: the front end derives the environment from a checkpoint *)
(* path.  A string is a sequence of segments: "MiniGrid" is the segment    *)
(* every MiniGrid id contains, "Other" the head of an id of another        *)
(* family, "a" and "b" the rest of a name.  The record ld holds the        *)
(* argument and the locals of one call, and what it did: checkpoint_reads  *)
(* (t.load), factory (the make_env call and its thunk), models_loaded      *)
(* (load_decision_transformer).                                            *)

\* segments a model path may have
MaxPath == 4

Segments == {"MiniGrid", "Other", "a", "b"}

\* gym.envs.registry.keys(), in registration order
Registry ==
    << <<"Other", "a">>, <<"MiniGrid", "a">>, <<"MiniGrid", "b">> >>

ModelPaths == UNION {[1 .. n -> Segments] : n \in 1 .. MaxPath}

\* the last dimension of the state embedding: view * view * 20 for one-hot
\* observations, view * view * 3 for raw ones
StateDims == {27, 60, 75, 80, 147, 500, 980}

\* Python's `sub in text` on strings
Contains(text, sub) ==
    \E p \in 1 .. (Len(text) - Len(sub) + 1) :
        SubSeq(text, p, p + Len(sub) - 1) = sub

\* int(math.sqrt(n))
IntSqrt(n) == CHOOSE r \in 0 .. n : r * r <= n /\ (r + 1) * (r + 1) > n

\* a slip: a checkpoint is one-hot unless its dimension is a multiple of 3
OneHotUnlessRaw(dim) == dim % 3 # 0

\* lines 28-29: not (shape[-1] % 20)
OneHotEncoded(dim) == dim % 20 = 0

IsMiniGrid(id) == Contains(id, <<"MiniGrid">>)

\* lines 31-33: the registered MiniGrid ids that occur in the path
EnvIdsIn(model_path) ==
    LET minigrid_envs == SelectSeq(Registry, IsMiniGrid)
        InPath(id) == Contains(model_path, id)
    IN  SelectSeq(minigrid_envs, InPath)

\* a slip: only the absence of an id is an error
PathRejectedIfNone(env_ids) ==
    IF Len(env_ids) = 0 THEN "Could not find the env id in the model path"
    ELSE ""

\* lines 34-39: the message of the ValueError, "" when none is raised
PathRejected(env_ids) ==
    IF Len(env_ids) = 0 THEN "Could not find the env id in the model path"
    ELSE IF Len(env_ids) > 1
         THEN "Found more than one env id in the model path"
         ELSE ""

NoError == [type |-> "", message |-> "", path |-> <<>>]

\* the argument of a call, and the checkpoint stored at that path
LoadCall(model_path, dim, new_model) ==
    [pc |-> "call", model_path |-> model_path,
     dim |-> dim, new_model |-> new_model,
     state_embedding_name |-> "", one_hot_encoded |-> FALSE,
     env_ids |-> <<>>, env_id |-> <<>>, view_size |-> 0,
     checkpoint_reads |-> 0, factory |-> FactoryCaller, factory_env_id |-> <<>>,
     models_loaded |-> 0, error |-> NoError]

\* lines 19-29: the checkpoint is read and classified
ReadCheckpoint(l) ==
    [l EXCEPT !.checkpoint_reads = @ + 1,
              !.state_embedding_name =
                  IF l.new_model THEN "state_embedding.weight"
                  ELSE "state_encoder.weight",
              !.one_hot_encoded = OneHotEncoded(l.dim),
              !.pc = "find"]

\* lines 30-40: the env id is looked up in the path
FindEnvId(l) ==
    LET env_ids == EnvIdsIn(l.model_path)
        message == PathRejected(env_ids)
    IN  IF message # ""
        THEN [l EXCEPT !.env_ids = env_ids,
                       !.error = [type |-> "ValueError", message |-> message,
                                  path |-> l.model_path],
                       !.pc = "raised"]
        ELSE [l EXCEPT !.env_ids = env_ids,
                       !.env_id = env_ids[1],
                       !.pc = "make"]

\* lines 42-61: the view size, the factory call and the call of its thunk
BuildEnv(l) ==
    LET view_size == IF l.one_hot_encoded THEN IntSqrt(l.dim \div 20)
                     ELSE IntSqrt(l.dim \div 3)
        env == Thunk(MakeEnv(l.factory, FALSE, 0, FALSE, l.one_hot_encoded,
                             view_size, IsMiniGrid(l.env_id)))
    IN  IF env.thunk_error # ""
        THEN [l EXCEPT !.view_size = view_size,
                       !.factory = env, !.factory_env_id = l.env_id,
                       !.error = [type |-> env.thunk_error, message |-> "",
                                  path |-> <<>>],
                       !.pc = "raised"]
        ELSE [l EXCEPT !.view_size = view_size,
                       !.factory = env, !.factory_env_id = l.env_id,
                       !.pc = "load"]

\* lines 63-66: load_decision_transformer(model_path, env), and the return
LoadModel(l) ==
    [l EXCEPT !.models_loaded = @ + 1, !.pc = "returned"]

InitLoad ==
    /\ \E model_path \in ModelPaths, dim \in StateDims, nm \in BOOLEAN :
          ld = LoadCall(model_path, dim, nm)
    /\ ev = Idle /\ evTwin = Idle /\ tr = Idle /\ lb = Idle /\ app = Idle
    /\ fac = Idle /\ tw = Idle

TorchLoad ==
    /\ ld.pc = "call"
    /\ ld' = ReadCheckpoint(ld)
    /\ UNCHANGED <<ev, evTwin, tr, lb, app, fac, tw>>

LookUpEnvId ==
    /\ ld.pc = "find"
    /\ ld' = FindEnvId(ld)
    /\ UNCHANGED <<ev, evTwin, tr, lb, app, fac, tw>>

CallFactory ==
    /\ ld.pc = "make"
    /\ ld' = BuildEnv(ld)
    /\ UNCHANGED <<ev, evTwin, tr, lb, app, fac, tw>>

LoadDecisionTransformer ==
    /\ ld.pc = "load"
    /\ ld' = LoadModel(ld)
    /\ UNCHANGED <<ev, evTwin, tr, lb, app, fac, tw>>

NextLoad == TorchLoad \/ LookUpEnvId \/ CallFactory \/ LoadDecisionTransformer

SpecLoad == InitLoad /\ [][NextLoad]_vars

\* the registered MiniGrid ids occurring in the path of the call
Matching ==
    {Registry[k] : k \in {j \in DOMAIN Registry :
        /\ IsMiniGrid(Registry[j])
        /\ Contains(ld.model_path, Registry[j])}}

\* C13: the call raises a ValueError carrying the model path exactly when
\* the number of registered MiniGrid ids occurring in the path is not one;
\* then no factory call is made, no environment created and no model
\* loaded; when exactly one occurs, the factory is called with it.
C13_ValueErrorUnlessOneEnvId ==
    /\ ld.pc \notin {"call", "find"} =>
           (ld.error.type = "ValueError" <=> Cardinality(Matching) # 1)
    /\ ld.pc \in {"call", "find"} => ld.error = NoError
    /\ ld.error.type = "ValueError" =>
           /\ ld.error.path = ld.model_path
           /\ ld.factory = FactoryCaller
           /\ ld.models_loaded = 0
    /\ ld.factory.calls > 0 =>
           (Cardinality(Matching) = 1 /\ ld.factory_env_id \in Matching)

\* a path naming two MiniGrid ids is refused
C13_Witness ==
    /\ ld.model_path = <<"MiniGrid", "a", "MiniGrid", "b">>
    /\ ld.pc = "raised"
    /\ ld.error.message = "Found more than one env id in the model path"

\* C14: a checkpoint is classified one-hot when the last dimension of its
\* state embedding is a multiple of 20 and raw-pixel when it is a multiple
\* of 3 and not of 20, and the factory is called with flat_one_hot equal
\* to the classification.
C14_OneHotByDimension ==
    /\ ld.pc # "call" =>
           /\ ld.dim % 20 = 0 => ld.one_hot_encoded
           /\ (ld.dim % 3 = 0 /\ ld.dim % 20 # 0) => ~ld.one_hot_encoded
    /\ ld.factory.calls > 0 =>
           /\ ld.factory.flat_one_hot = ld.one_hot_encoded
           /\ ld.factory.thunk.flat_one_hot = ld.one_hot_encoded

\* a checkpoint whose dimension is a multiple of both 20 and 3, handed to
\* the factory as one-hot
C14_Witness ==
    /\ ld.dim = 60 /\ ld.one_hot_encoded
    /\ ld.factory.calls = 1 /\ ld.factory.flat_one_hot

----------------------------------------------------------------------------
(* TrajectoryWriter (src.utils): accumulate_trajectory and write.  Of an   *)
(* argument only its container type matters here; tw holds the trajectory  *)
(* accumulated so far (one entry per accepted call, each field with the    *)
(* container it is stored in), the latest call and its outcome.            *)

\* accumulate calls made on one writer
MaxAccumulate == 2

Containers == {"ndarray", "tensor", "list"}

\* the array-valued fields of a call (info is a dict or a list of dicts)
Fields == {"next_obs", "reward", "done", "truncated", "action"}

CallArgs == [Fields -> Containers]

\* a slip: only the observation is checked
WrongContainerObsOnly(args) == args["next_obs"] # "ndarray"

\* some field is not a numpy array
WrongContainer(args) == \E f \in Fields : args[f] # "ndarray"

\* TrajectoryWriter(path, args)
NewWriter ==
    [pc |-> "open", stored |-> <<>>, calls |-> 0, last_args |-> <<>>,
     error |-> "", written |-> <<>>, writes |-> 0]

\* accumulate_trajectory(next_obs, reward, done, truncated, action, info)
AccumulateTrajectory(w, args) ==
    IF WrongContainer(args)
    THEN [w EXCEPT !.calls = @ + 1, !.last_args = args,
                   !.error = "TypeError"]
    ELSE [w EXCEPT !.calls = @ + 1, !.last_args = args,
                   !.error = "",
                   !.stored = Append(@, args)]

\* write(): the accumulated trajectory goes to the file
WriteTrajectory(w) ==
    [w EXCEPT !.written = w.stored, !.writes = @ + 1]

InitWriter ==
    /\ tw = NewWriter
    /\ ev = Idle /\ evTwin = Idle /\ tr = Idle /\ lb = Idle /\ app = Idle
    /\ fac = Idle /\ ld = Idle

Accumulate ==
    /\ tw.pc = "open"
    /\ tw.calls < MaxAccumulate
    /\ \E args \in CallArgs : tw' = AccumulateTrajectory(tw, args)
    /\ UNCHANGED <<ev, evTwin, tr, lb, app, fac, ld>>

Write ==
    /\ tw.pc = "open"
    /\ tw.writes < tw.calls
    /\ tw' = WriteTrajectory(tw)
    /\ UNCHANGED <<ev, evTwin, tr, lb, app, fac, ld>>

NextWriter == Accumulate \/ Write

SpecWriter == InitWriter /\ [][NextWriter]_vars

\* the entries of a trajectory that hold anything but numpy arrays
Coerced(trajectory) ==
    {k \in DOMAIN trajectory :
        \E f \in Fields : trajectory[k][f] # "ndarray"}

\* C15: an accumulate call with a field of the wrong container type ends
\* in TypeError, at that call, and adds nothing to the trajectory; nothing
\* of another container type is ever stored or written.
C15_WrongContainerRejected ==
    /\ [](/\ Coerced(tw.stored) = {} /\ Coerced(tw.written) = {}
          /\ tw.calls > 0 =>
                 (tw.error = "TypeError" <=>
                      \E f \in Fields : tw.last_args[f] # "ndarray"))
    /\ [][(tw'.calls > tw.calls /\ tw'.error = "TypeError") =>
              tw'.stored = tw.stored]_vars

\* the call of test_trajectory_writer_torch: every field a torch tensor,
\* after a call that was accepted
C15_Witness ==
    /\ tw.calls = 2 /\ Len(tw.stored) = 1
    /\ \A f \in Fields : tw.last_args[f] = "tensor"
    /\ tw.error = "TypeError"

====
